---- MODULE Spec2Model ----
(***************************************************************************)
(* datasette-tiles: the tile routes (tile, tile_tms, tiles_stack,          *)
(* tiles_stack_tms) and the stack explorer of                              *)
(* src/datasette_tiles/__init__.py as a state machine.                     *)
(*                                                                         *)
(* One request is served at a time (requests share no mutable state).      *)
(* The SQLite files are read-only: tiles and metadata never change.        *)
(***************************************************************************)
EXTENDS Integers, Sequences, FiniteSets, TLC

VARIABLES
    tiles,              \* per database: the rows of its "tiles" table
    metadata,           \* per database: its "metadata" table, name -> value
    pc,                 \* "idle", "stack_loop", "explorer_loop", "done"
    request,            \* the route taken and its url_vars
    mbtiles_databases,  \* _tile: what detect_mtiles_databases returned
    priority_order,     \* what tiles_stack_database_order returned
    idx,                \* position of the for loop in priority_order
    queries,            \* the tile point queries issued so far, in order
    frame,              \* tiles_stack_explorer: min_zooms, max_zooms, attributions
    context,            \* the context handed to render_template, when rendered
    outcome             \* what the handler returned or raised

vars == <<tiles, metadata, pc, request, mbtiles_databases, priority_order,
          idx, queries, frame, context, outcome>>

---------------------------------------------------------------------------
(* Bounds of the model.                                                    *)

\* longest priority order tiles_stack_database_order returns
MaxStack == 2
\* most rows in one database's tiles table
MaxRows == 1

Databases == {"a", "b"}

---------------------------------------------------------------------------
(* Python numbers.                                                         *)
(*                                                                         *)
(* A Python int is unbounded. An integer n is the pair <<hi, lo>> with     *)
(* n = hi * Limb + lo and 0 <= lo < Limb (hi < 0 for a negative n), so     *)
(* that rows near 2^54 can be computed.                                    *)
(* A Python float is an IEEE double. Every float that line 57 computes is  *)
(* integer-valued and is held as the integer it equals; ToFloat rounds an  *)
(* exact result to the nearest double, ties to even.                       *)

Limb == 2^27

\* sys.float_info.mant_dig and max_exp of the double behind math.pow
DBL_MANT_DIG == 53
DBL_MAX_EXP == 1024

PyInt(n) ==
    <<n \div Limb, n % Limb>>

\* no request: the url_vars of a request are db_name, z, x and y
NoRequest ==
    [route |-> "none", db_name |-> "", z |-> 0, x |-> 0, y |-> PyInt(0)]

IntAdd(a, b) ==
    <<a[1] + b[1] + ((a[2] + b[2]) \div Limb), (a[2] + b[2]) % Limb>>

IntSub(a, b) ==
    <<a[1] - b[1] + ((a[2] - b[2]) \div Limb), (a[2] - b[2]) % Limb>>

IntNeg(a) ==
    IntSub(PyInt(0), a)

IntLess(a, b) ==
    a[1] < b[1] \/ (a[1] = b[1] /\ a[2] < b[2])

\* 2^e exactly, for the exponents the model computes with (e <= 57)
Pow2(e) ==
    IF e < 27 THEN <<0, 2^e>> ELSE <<2^(e - 27), 0>>

\* the spacing of the doubles around the magnitude m: 2^k for
\* 2^(52+k) <= m < 2^(53+k), and 1 below 2^53
RECURSIVE UlpFrom(_, _)
UlpFrom(m, k) ==
    IF IntLess(m, Pow2(DBL_MANT_DIG + k)) THEN 2^k ELSE UlpFrom(m, k + 1)

RoundMagnitude(m) ==
    LET u    == UlpFrom(m, 0)
        r    == m[2] % u
        down == <<m[1], m[2] - r>>
        up   == IntAdd(down, PyInt(u))
    IN  IF 2 * r < u THEN down
        ELSE IF 2 * r > u THEN up
        ELSE IF (down[2] \div u) % 2 = 0 THEN down
        ELSE up

\* the double nearest to the integer n (round half to even)
ToFloat(n) ==
    IF n[1] < 0 THEN IntNeg(RoundMagnitude(IntNeg(n))) ELSE RoundMagnitude(n)

\* float - float
FloatSub(a, b) ==
    ToFloat(IntSub(a, b))

NoError == "none"

\* math.pow(2, z): exact below 2^1024, OverflowError from there on
MathPow2(z) ==
    IF z >= DBL_MAX_EXP
    THEN [raised |-> "OverflowError", value |-> PyInt(0)]
    ELSE [raised |-> NoError, value |-> Pow2(z)]

\* int(math.pow(2, z) - 1 - y): two float subtractions, the ints 1 and y
\* converted to float first; int() of an integer-valued float is exact
XyzToTmsRow(z, y) ==
    LET p == MathPow2(z)
    IN  IF p.raised # NoError THEN p
        ELSE [raised |-> NoError,
              value  |-> FloatSub(FloatSub(p.value, ToFloat(PyInt(1))), ToFloat(y))]

---------------------------------------------------------------------------
(* Values, storage and responses.                                          *)

\* a Python value that is None or a bytes object
PyNone == [is_none |-> TRUE, bytes |-> <<>>]
PyBytes(b) == [is_none |-> FALSE, bytes |-> b]

MVT_404 ==
    <<31, 139, 8, 0, 250, 120, 24, 94, 0, 3, 147, 226, 227, 98, 143, 143,
      79, 205, 45, 40, 169, 212, 104, 80, 168, 96, 2, 0, 100, 113, 68, 54,
      16, 0, 0, 0>>

\* the tile_data a stored row may hold: the empty blob, a gzip header, and
\* NULL, which Python reads as None
TileData == {PyBytes(<<>>), PyBytes(<<31, 139, 8>>), PyNone}

\* the (zoom_level, tile_column, tile_row) keys stored rows may have
StoredKeys == {<<1, 0, PyInt(0)>>, <<1, 0, PyInt(1)>>}

TileRows ==
    {[zoom_level |-> k[1], tile_column |-> k[2], tile_row |-> k[3], tile_data |-> d] :
        k \in StoredKeys, d \in TileData}

RowKey(row) ==
    <<row.zoom_level, row.tile_column, row.tile_row>>

\* a tiles table: at most MaxRows rows, one row per key (the unique index
\* of an MBTiles file)
TileTables ==
    {t \in SUBSET TileRows :
        /\ Cardinality(t) <= MaxRows
        /\ \A r1, r2 \in t : RowKey(r1) = RowKey(r2) => r1 = r2}

\* db.execute(SELECT_TILE_SQL, {z, x, y}).rows: the tile_data of the rows
\* matching the key
SelectTile(db, key) ==
    LET hits == {r \in tiles[db] : RowKey(r) = key}
    IN  IF hits = {} THEN <<>> ELSE <<  <<(CHOOSE r \in hits : TRUE).tile_data>>  >>

NoOutcome ==
    [kind |-> "none", status |-> 0, body |-> <<>>, content_type |-> "",
     content_encoding |-> "", error |-> NoError]

Response(body, status) ==
    [kind |-> "response", status |-> status, body |-> body,
     content_type |-> "application/vnd.mapbox-vector-tile",
     content_encoding |-> "gzip", error |-> NoError]

Raise(error) ==
    [kind |-> "error", status |-> 0, body |-> <<>>, content_type |-> "",
     content_encoding |-> "", error |-> error]

---------------------------------------------------------------------------
(* Requests.                                                               *)

\* url_vars z, x and y match \d+ and go through int(): non-negative integers
Zooms == {0, 1, DBL_MANT_DIG + 1, DBL_MAX_EXP}
Columns == {0, 1}
RowIndexes == {PyInt(0), PyInt(1), IntSub(Pow2(DBL_MANT_DIG + 1), PyInt(2))}

\* the tms argument each route handler passes on
Tms(req) ==
    req.route \in {"tile_tms", "tiles_stack_tms"}

NoFrame ==
    [min_zooms |-> <<>>, max_zooms |-> <<>>, attributions |-> <<>>]

---------------------------------------------------------------------------
(* load_tile and the single-source routes.                                 *)

\* load_tile with the query wrapped in try/except: a failing store reads as
\* "no tile"
load_tile_swallow(db, req, tms, execute_fails) ==
    LET y == IF tms
             THEN [raised |-> NoError, value |-> req.y]
             ELSE XyzToTmsRow(req.z, req.y)
    IN  IF y.raised # NoError
        THEN [raised |-> y.raised, query |-> <<>>, tile |-> PyNone]
        ELSE
            LET key  == <<req.z, req.x, y.value>>
                rows == SelectTile(db, key)
            IN  [raised |-> NoError,
                 query  |-> <<[db |-> db, key |-> key, failed |-> execute_fails]>>,
                 tile   |-> IF execute_fails \/ rows = <<>> THEN PyNone ELSE rows[1][1]]

\* load_tile(db, request, tms). execute_fails: db.execute raises instead of
\* returning (the backing store is unavailable); nothing here catches it.
\* query is what the call adds to the log of point queries.
load_tile(db, req, tms, execute_fails) ==
    LET y == IF tms
             THEN [raised |-> NoError, value |-> req.y]
             ELSE XyzToTmsRow(req.z, req.y)
    IN  IF y.raised # NoError
        THEN [raised |-> y.raised, query |-> <<>>, tile |-> PyNone]
        ELSE
            LET key  == <<req.z, req.x, y.value>>
                rows == SelectTile(db, key)
            IN  IF execute_fails
                THEN [raised |-> "BackingStoreError",
                      query  |-> <<[db |-> db, key |-> key, failed |-> TRUE]>>,
                      tile   |-> PyNone]
                ELSE [raised |-> NoError,
                      query  |-> <<[db |-> db, key |-> key, failed |-> FALSE]>>,
                      tile   |-> IF rows = <<>> THEN PyNone ELSE rows[1][1]]

\* detect_mtiles_databases(datasette): the names of the databases that are
\* MBTiles files just now
DetectMbtilesDatabases ==
    SUBSET Databases

\* _tile without the membership test
UnknownSourceIgnored(db_name, known) ==
    FALSE

\* line 82: db_name not in mbtiles_databases
UnknownSource(db_name, known) ==
    db_name \notin known

\* _tile testing "if not tile" in place of "if tile is None"
TileResponseTruthy(tile_value) ==
    IF tile_value.is_none \/ tile_value.bytes = <<>>
    THEN Response(MVT_404, 404)
    ELSE Response(tile_value.bytes, 200)

\* lines 86-88 of _tile: the response for what load_tile returned
TileResponse(tile_value) ==
    IF tile_value.is_none
    THEN Response(MVT_404, 404)
    ELSE Response(tile_value.bytes, 200)

\* _tile(request, datasette, tms), from the request to the response or the
\* exception
_tile(req, tms) ==
    /\ pc = "idle"
    /\ request' = req
    /\ \E known \in DetectMbtilesDatabases :
        /\ mbtiles_databases' = known
        /\ IF UnknownSource(req.db_name, known)
           THEN /\ outcome' = Raise("NotFound")
                /\ queries' = <<>>
           ELSE \E execute_fails \in BOOLEAN :
                    LET got == load_tile(req.db_name, req, tms, execute_fails)
                    IN  /\ queries' = got.query
                        /\ outcome' = IF got.raised # NoError
                                      THEN Raise(got.raised)
                                      ELSE TileResponse(got.tile)
    /\ pc' = "done"
    /\ UNCHANGED <<tiles, metadata, priority_order, idx, frame, context>>

tile ==
    \E db_name \in Databases, z \in Zooms, x \in Columns, y \in RowIndexes :
        _tile([route |-> "tile", db_name |-> db_name, z |-> z, x |-> x, y |-> y], FALSE)

tile_tms ==
    \E db_name \in Databases, z \in Zooms, x \in Columns, y \in RowIndexes :
        _tile([route |-> "tile_tms", db_name |-> db_name, z |-> z, x |-> x, y |-> y], TRUE)

---------------------------------------------------------------------------
(* The stacked routes.                                                     *)

RECURSIVE SeqsUpTo(_)
SeqsUpTo(n) ==
    IF n = 0 THEN {<<>>}
    ELSE SeqsUpTo(n - 1) \cup
         {Append(s, d) : s \in {t \in SeqsUpTo(n - 1) : Len(t) = n - 1}, d \in Databases}

\* tiles_stack_database_order(datasette): the databases of the stack,
\* highest priority first
TilesStackDatabaseOrder ==
    SeqsUpTo(MaxStack)

\* _tiles_stack, line 92: the priority order is read once, before the loop
_tiles_stack(req) ==
    /\ pc = "idle"
    /\ request' = req
    /\ \E order \in TilesStackDatabaseOrder : priority_order' = order
    /\ idx' = 1
    /\ queries' = <<>>
    /\ pc' = "stack_loop"
    /\ UNCHANGED <<tiles, metadata, mbtiles_databases, frame, context, outcome>>

tiles_stack ==
    \E z \in Zooms, x \in Columns, y \in RowIndexes :
        _tiles_stack([route |-> "tiles_stack", db_name |-> "", z |-> z, x |-> x, y |-> y])

tiles_stack_tms ==
    \E z \in Zooms, x \in Columns, y \in RowIndexes :
        _tiles_stack([route |-> "tiles_stack_tms", db_name |-> "", z |-> z, x |-> x, y |-> y])

\* the loop running over reversed(priority_order)
LoopDatabaseReversed(order, i) ==
    order[Len(order) + 1 - i]

\* line 94: the database the loop's i-th iteration binds
LoopDatabase(order, i) ==
    order[i]

\* the loop testing "if tile" in place of "if tile is not None"
TileFoundTruthy(tile_value) ==
    ~tile_value.is_none /\ tile_value.bytes # <<>>

\* line 96: tile is not None
TileFound(tile_value) ==
    ~tile_value.is_none

\* the fallback response without the fallback tile
StackMissResponseEmptyBody ==
    Response(<<>>, 404)

\* line 98: the response after the loop
StackMissResponse ==
    Response(MVT_404, 404)

\* lines 94-97: one iteration of the loop
StackTry ==
    /\ pc = "stack_loop"
    /\ idx <= Len(priority_order)
    /\ \E execute_fails \in BOOLEAN :
        LET got == load_tile(LoopDatabase(priority_order, idx), request,
                             Tms(request), execute_fails)
        IN  /\ queries' = queries \o got.query
            /\ IF got.raised # NoError
               THEN /\ outcome' = Raise(got.raised)
                    /\ pc' = "done"
                    /\ idx' = idx
               ELSE IF TileFound(got.tile)
               THEN /\ outcome' = Response(got.tile.bytes, 200)
                    /\ pc' = "done"
                    /\ idx' = idx
               ELSE /\ outcome' = outcome
                    /\ pc' = pc
                    /\ idx' = idx + 1
    /\ UNCHANGED <<tiles, metadata, request, mbtiles_databases, priority_order, frame,
                   context>>

\* line 98: the loop ran out of databases
StackMiss ==
    /\ pc = "stack_loop"
    /\ idx > Len(priority_order)
    /\ outcome' = StackMissResponse
    /\ pc' = "done"
    /\ UNCHANGED <<tiles, metadata, request, mbtiles_databases, priority_order,
                   idx, queries, frame, context>>

\* the response is sent; the next request starts from nothing but the files
Finish ==
    /\ pc = "done"
    /\ pc' = "idle"
    /\ request' = NoRequest
    /\ mbtiles_databases' = {}
    /\ priority_order' = <<>>
    /\ idx' = 0
    /\ queries' = <<>>
    /\ frame' = NoFrame
    /\ context' = <<>>
    /\ outcome' = NoOutcome
    /\ UNCHANGED <<tiles, metadata>>

NoMetadata ==
    [db \in Databases |-> <<>>]

Init ==
    /\ tiles \in [Databases -> TileTables]
    /\ metadata = NoMetadata
    /\ pc = "idle"
    /\ request = NoRequest
    /\ mbtiles_databases = {}
    /\ priority_order = <<>>
    /\ idx = 0
    /\ queries = <<>>
    /\ frame = NoFrame
    /\ context = <<>>
    /\ outcome = NoOutcome

Next ==
    \/ tile
    \/ tile_tms
    \/ tiles_stack
    \/ tiles_stack_tms
    \/ StackTry
    \/ StackMiss
    \/ Finish

Spec ==
    Init /\ [][Next]_vars

---------------------------------------------------------------------------
(* The stack explorer.                                                     *)
(*                                                                         *)
(* A str is the sequence of its characters.                                *)

Digits == <<"0", "1", "2", "3", "4", "5", "6", "7", "8", "9">>

IsDigit(c) ==
    \E d \in DOMAIN Digits : Digits[d] = c

DigitValue(c) ==
    (CHOOSE d \in DOMAIN Digits : Digits[d] = c) - 1

RECURSIVE DecimalValue(_)
DecimalValue(s) ==
    IF s = <<>> THEN 0
    ELSE 10 * DecimalValue(SubSeq(s, 1, Len(s) - 1)) + DigitValue(s[Len(s)])

\* int(s) for a str of decimal digits; ValueError for the empty str and for
\* any other character of the model's strings
ParseInt(s) ==
    IF s # <<>> /\ \A i \in DOMAIN s : IsDigit(s[i])
    THEN [raised |-> NoError, value |-> DecimalValue(s)]
    ELSE [raised |-> "ValueError", value |-> 0]

\* json.dumps of a str without characters that need escaping
JsonDumps(s) ==
    <<"\"">> \o s \o <<"\"">>

MetadataNames == {"minzoom", "maxzoom", "attribution"}

MetadataValues(name) ==
    CASE name = "minzoom" -> {<<"0">>, <<"5">>}
      [] name = "maxzoom" -> {<<"5">>, <<"1", "4">>}
      [] name = "attribution" -> {<<"O", "S", "M">>, <<"X">>}

\* the dict built from "select name, value from metadata": the names a
\* database declares, each with its value
MetadataDicts ==
    UNION {{d \in [names -> UNION {MetadataValues(n) : n \in MetadataNames}] :
                \A n \in names : d[n] \in MetadataValues(n)} :
           names \in SUBSET MetadataNames}

SeqMin(s) ==
    CHOOSE m \in {s[i] : i \in DOMAIN s} : \A i \in DOMAIN s : m <= s[i]

SeqMax(s) ==
    CHOOSE m \in {s[i] : i \in DOMAIN s} : \A i \in DOMAIN s : m >= s[i]

HtmlResponse ==
    [kind |-> "response", status |-> 200, body |-> <<>>,
     content_type |-> "text/html; charset=utf-8", content_encoding |-> "",
     error |-> NoError]

\* lines 177-182: the priority order is read and the lists start empty
tiles_stack_explorer ==
    /\ pc = "idle"
    /\ request' = [NoRequest EXCEPT !.route = "tiles_stack_explorer"]
    /\ \E order \in TilesStackDatabaseOrder : priority_order' = order
    /\ idx' = 1
    /\ frame' = NoFrame
    /\ pc' = "explorer_loop"
    /\ UNCHANGED <<tiles, metadata, mbtiles_databases, queries, context, outcome>>

\* lines 188-189 (or 190-191): the list after one database's metadata
AppendZoom(zooms, dict, name) ==
    IF name \in DOMAIN dict THEN Append(zooms, ParseInt(dict[name]).value) ELSE zooms

\* lines 183-191: one iteration of the loop; nothing is added to attributions
ExplorerRead ==
    /\ pc = "explorer_loop"
    /\ idx <= Len(priority_order)
    /\ LET dict == metadata[priority_order[idx]]
           bad  == {n \in {"minzoom", "maxzoom"} \cap DOMAIN dict :
                        ParseInt(dict[n]).raised # NoError}
       IN  IF bad # {}
           THEN /\ outcome' = Raise("ValueError")
                /\ pc' = "done"
                /\ UNCHANGED <<idx, frame>>
           ELSE /\ frame' = [frame EXCEPT
                                !.min_zooms = AppendZoom(@, dict, "minzoom"),
                                !.max_zooms = AppendZoom(@, dict, "maxzoom")]
                /\ idx' = idx + 1
                /\ UNCHANGED <<pc, outcome>>
    /\ UNCHANGED <<tiles, metadata, request, mbtiles_databases, priority_order,
                   queries, context>>

\* lines 193-194: the attribution, "" at line 177
ExplorerAttribution(attributions) ==
    IF Cardinality({attributions[i] : i \in DOMAIN attributions}) = 1
    THEN attributions[1]
    ELSE <<>>

\* lines 193-209: after the loop; min() and max() of an empty list raise
\* ValueError
ExplorerRender ==
    /\ pc = "explorer_loop"
    /\ idx > Len(priority_order)
    /\ IF frame.min_zooms = <<>> \/ frame.max_zooms = <<>>
       THEN /\ outcome' = Raise("ValueError")
            /\ context' = context
       ELSE /\ context' = <<[default_latitude  |-> 0,
                             default_longitude |-> 0,
                             default_zoom      |-> SeqMin(frame.min_zooms),
                             min_zoom          |-> SeqMin(frame.min_zooms),
                             max_zoom          |-> SeqMax(frame.max_zooms),
                             attribution       |->
                                 JsonDumps(ExplorerAttribution(frame.attributions))]>>
            /\ outcome' = HtmlResponse
    /\ pc' = "done"
    /\ UNCHANGED <<tiles, metadata, request, mbtiles_databases, priority_order,
                   idx, queries, frame>>

ExplorerInit ==
    /\ tiles = [db \in Databases |-> {}]
    /\ metadata \in [Databases -> MetadataDicts]
    /\ pc = "idle"
    /\ request = NoRequest
    /\ mbtiles_databases = {}
    /\ priority_order = <<>>
    /\ idx = 0
    /\ queries = <<>>
    /\ frame = NoFrame
    /\ context = <<>>
    /\ outcome = NoOutcome

ExplorerNext ==
    \/ tiles_stack_explorer
    \/ ExplorerRead
    \/ ExplorerRender
    \/ Finish

ExplorerSpec ==
    ExplorerInit /\ [][ExplorerNext]_vars

---------------------------------------------------------------------------
(* What the claims speak of.                                               *)

InSingle ==
    request.route \in {"tile", "tile_tms"}

InStack ==
    request.route \in {"tiles_stack", "tiles_stack_tms"}

InExplorer ==
    request.route = "tiles_stack_explorer"

\* the source stores a tile under the key: a row with tile_data (a row whose
\* tile_data is NULL stores none)
HoldsTile(db, key) ==
    \E r \in tiles[db] : RowKey(r) = key /\ r.tile_data # PyNone

\* the bytes the source stores for the key
StoredBytes(db, key) ==
    (CHOOSE r \in tiles[db] : RowKey(r) = key).tile_data.bytes

\* the positions of the priority order whose source holds the key
Holders(key) ==
    {j \in DOMAIN priority_order : HoldsTile(priority_order[j], key)}

FirstHolder(key) ==
    CHOOSE j \in Holders(key) : \A k \in Holders(key) : j <= k

\* no point query of this request failed
NoFailure ==
    \A i \in DOMAIN queries : ~queries[i].failed

\* every lookup made for this request returned (a tile or None)
LookupsReturned ==
    outcome.error \notin {"BackingStoreError", "OverflowError"}

\* the key the point queries of this request carry
QueriedKey ==
    queries[1].key

\* 2^z - 1 - y over the integers
ExactTmsRow(z, y) ==
    IntSub(IntSub(Pow2(z), PyInt(1)), y)

\* 0 <= y < 2^z (every row index of the model is below 2^1024)
RowInGrid(z, y) ==
    IF z >= DBL_MAX_EXP THEN TRUE ELSE IntLess(y, Pow2(z))

\* the storage key of the cell a request addresses: its row as it is under
\* the TMS convention, 2^z - 1 - y under the XYZ convention
CellKey(req) ==
    <<req.z, req.x, IF Tms(req) THEN req.y ELSE ExactTmsRow(req.z, req.y)>>

\* the response for the tile stored under a key: of the requested source,
\* or of the first source of the stack that holds it
ResponseFor(key) ==
    IF InSingle
    THEN IF HoldsTile(request.db_name, key)
         THEN Response(StoredBytes(request.db_name, key), 200)
         ELSE Response(MVT_404, 404)
    ELSE IF Holders(key) # {}
         THEN Response(StoredBytes(priority_order[FirstHolder(key)], key), 200)
         ELSE Response(MVT_404, 404)

---------------------------------------------------------------------------
(* The claims.                                                             *)

\* C1: a finished stack resolution whose lookups all returned, with at least
\* one source of the priority order holding the queried tile, answers
\* status 200 with exactly the bytes stored by the earliest such source.
C1_StackReturnsFirstHolder ==
    (pc = "done" /\ InStack /\ LookupsReturned /\ queries # <<>>
        /\ Holders(QueriedKey) # {})
    => outcome = Response(
           StoredBytes(priority_order[FirstHolder(QueriedKey)], QueriedKey), 200)

\* C1 witness: both sources of a stack hold the tile with different bytes
\* and the response carries the first one's.
C1_Witness ==
    /\ pc = "done" /\ InStack /\ Len(priority_order) = 2
    /\ queries # <<>>
    /\ Holders(QueriedKey) = {1, 2}
    /\ StoredBytes(priority_order[1], QueriedKey)
           # StoredBytes(priority_order[2], QueriedKey)
    /\ outcome.status = 200
    /\ outcome.body = StoredBytes(priority_order[1], QueriedKey)

\* C2: at every point of a stack resolution the sources queried so far are
\* a prefix of the priority order, in order, one query per entry; only the
\* last query may have found a tile or failed; a 200 ends at the first hit
\* and a 404 comes after the whole order.
C2_QueriedPrefixOfOrder ==
    InStack =>
        /\ Len(queries) <= Len(priority_order)
        /\ \A i \in DOMAIN queries : queries[i].db = priority_order[i]
        /\ \A i \in DOMAIN queries :
               i < Len(queries) =>
                   ~queries[i].failed /\ ~HoldsTile(queries[i].db, queries[i].key)
        /\ pc = "stack_loop" => Len(queries) = idx - 1
        /\ (pc = "done" /\ outcome.status = 200) =>
               /\ queries # <<>>
               /\ HoldsTile(queries[Len(queries)].db, queries[Len(queries)].key)
        /\ (pc = "done" /\ outcome.status = 404) =>
               Len(queries) = Len(priority_order)

\* C2 witness: the first of two sources answered and the second was never
\* queried.
C2_Witness ==
    /\ pc = "done" /\ InStack
    /\ Len(priority_order) = 2 /\ Len(queries) = 1
    /\ outcome.status = 200
    /\ HoldsTile(priority_order[2], QueriedKey)

\* C3: a finished stack resolution whose lookups all returned and in which
\* no source of the priority order holds the queried tile (the empty stack
\* included) answers status 404 with exactly MVT_404, after one query per
\* source.
C3_StackMissIsEmptyTile ==
    (pc = "done" /\ InStack /\ LookupsReturned
        /\ (queries # <<>> => Holders(QueriedKey) = {}))
    => /\ outcome = Response(MVT_404, 404)
       /\ Len(queries) = Len(priority_order)

\* C3 witness: the zoom-0 tile (0, 0, 0) was looked up in both sources of a
\* stack, of which one stores other tiles, and the answer is the 404.
C3_Witness ==
    /\ pc = "done" /\ InStack
    /\ request.z = 0 /\ request.x = 0 /\ request.y = PyInt(0)
    /\ Len(priority_order) = 2 /\ Len(queries) = 2
    /\ \E j \in DOMAIN priority_order : tiles[priority_order[j]] # {}
    /\ outcome.status = 404 /\ outcome.body = MVT_404

\* C4: a finished single-source request for a known source whose point query
\* returned answers 200 with the stored bytes when the source holds a tile
\* under the queried key, and 404 with MVT_404 when it holds none; any 404
\* response carries MVT_404 and follows a query that found no tile; a
\* response with an empty body is a 200 serving a stored empty blob.
C4_SingleHitOrEmptyTile ==
    (pc = "done" /\ InSingle) =>
        /\ (Len(queries) = 1 /\ NoFailure) =>
               outcome = IF HoldsTile(request.db_name, QueriedKey)
                         THEN Response(StoredBytes(request.db_name, QueriedKey), 200)
                         ELSE Response(MVT_404, 404)
        /\ outcome.status = 404 =>
               /\ outcome.body = MVT_404
               /\ Len(queries) = 1
               /\ ~HoldsTile(request.db_name, QueriedKey)
        /\ (outcome.kind = "response" /\ outcome.body = <<>>) =>
               /\ outcome.status = 200
               /\ StoredBytes(request.db_name, QueriedKey) = <<>>

\* C4 witness: a stored empty blob is served as a hit.
C4_Witness ==
    /\ pc = "done" /\ InSingle
    /\ Len(queries) = 1
    /\ HoldsTile(request.db_name, QueriedKey)
    /\ outcome.status = 200 /\ outcome.body = <<>>

\* C5: a finished single-source request whose db_name is not among the
\* MBTiles databases raised NotFound and issued no tile query.
C5_UnknownSourceIsNotFound ==
    (pc = "done" /\ InSingle /\ request.db_name \notin mbtiles_databases)
    => /\ outcome = Raise("NotFound")
       /\ queries = <<>>

\* C5 witness: the unknown source's file stores the very tile requested.
C5_Witness ==
    /\ pc = "done" /\ InSingle
    /\ request.db_name \notin mbtiles_databases
    /\ Tms(request)
    /\ HoldsTile(request.db_name, <<request.z, request.x, request.y>>)
    /\ outcome.error = "NotFound"

\* C7: in a stack resolution a failed point query is the last query of the
\* request, made once at its source's place in the order, and the request
\* is over with that error and no response.
C7_StoreErrorEndsRequest ==
    InStack =>
        \A i \in DOMAIN queries :
            queries[i].failed =>
                /\ i = Len(queries)
                /\ i <= Len(priority_order)
                /\ queries[i].db = priority_order[i]
                /\ pc = "done"
                /\ outcome = Raise("BackingStoreError")

\* C7 witness: the first source's query failed while the second source holds
\* the tile.
C7_Witness ==
    /\ pc = "done" /\ InStack
    /\ Len(priority_order) = 2 /\ Len(queries) = 1
    /\ queries[1].failed
    /\ HoldsTile(priority_order[2], QueriedKey)
    /\ outcome.error = "BackingStoreError"

\* C6: a finished tile request for a known source or the stack, with its row
\* inside the grid (0 <= y < 2^z), queried storage only under the key of
\* the cell it addresses, (z, x, y) for TMS and (z, x, 2^z - 1 - y) for XYZ,
\* and, its queries having returned, answers with the tile stored under
\* that key: the two conventions agree on key and response.
C6_ConventionsAgree ==
    (pc = "done" /\ (InSingle \/ InStack) /\ outcome.error # "NotFound"
        /\ RowInGrid(request.z, request.y))
    => /\ outcome.error # "OverflowError"
       /\ \A i \in DOMAIN queries : queries[i].key = CellKey(request)
       /\ NoFailure => outcome = ResponseFor(CellKey(request))

\* C8: a finished tile request for a known source or the stack, none of
\* whose point queries failed, ended in a response, having queried storage
\* (each source the stack reached), and with no tile found the response is
\* the 404 with MVT_404.
C8_NoCoordinateError ==
    (pc = "done" /\ (InSingle \/ InStack) /\ outcome.error # "NotFound"
        /\ NoFailure)
    => /\ outcome.kind = "response"
       /\ InSingle => Len(queries) = 1
       /\ (InStack /\ priority_order # <<>>) => queries # <<>>
       /\ (\A i \in DOMAIN queries : ~HoldsTile(queries[i].db, queries[i].key))
              => outcome = Response(MVT_404, 404)

\* the attributions the sources of the stack declare
DeclaredAttributions ==
    {metadata[priority_order[i]]["attribution"] :
        i \in {j \in DOMAIN priority_order :
                  "attribution" \in DOMAIN metadata[priority_order[j]]}}

AllDeclare(name) ==
    \A i \in DOMAIN priority_order : name \in DOMAIN metadata[priority_order[i]]

\* the zoom levels the sources of the stack declare under a name
DeclaredZooms(name) ==
    {DecimalValue(metadata[priority_order[i]][name]) :
        i \in {j \in DOMAIN priority_order :
                  name \in DOMAIN metadata[priority_order[j]]}}

\* C9: the attribution the stack explorer hands to its template is the
\* common value when every source of the stack declares the same
\* attribution, and blank when two sources declare different ones.
C9_CommonAttribution ==
    (pc = "done" /\ InExplorer /\ outcome.kind = "response") =>
        /\ (AllDeclare("attribution") /\ Cardinality(DeclaredAttributions) = 1) =>
               context[1].attribution =
                   JsonDumps(CHOOSE a \in DeclaredAttributions : TRUE)
        /\ Cardinality(DeclaredAttributions) > 1 =>
               context[1].attribution = JsonDumps(<<>>)

\* C10: the stack explorer ends in a response for every stack, and its
\* min_zoom is the least declared minzoom and its max_zoom the greatest
\* declared maxzoom of the stack's sources.
C10_ZoomEnvelope ==
    (pc = "done" /\ InExplorer) =>
        /\ outcome.kind = "response"
        /\ \A m \in DeclaredZooms("minzoom") : context[1].min_zoom <= m
        /\ DeclaredZooms("minzoom") # {} =>
               context[1].min_zoom \in DeclaredZooms("minzoom")
        /\ \A m \in DeclaredZooms("maxzoom") : context[1].max_zoom >= m
        /\ DeclaredZooms("maxzoom") # {} =>
               context[1].max_zoom \in DeclaredZooms("maxzoom")

====
